---- MODULE Spec2Model ----
(***************************************************************************)
(* A model of PySpace/Performance.py (class PerformanceTester and the      *)
(* script entry point) and of PySpace/leetcode.py (dailyTemperatures).     *)
(*                                                                         *)
(* The program is sequential.  Every function is modelled as a state       *)
(* machine over its local variables with a control point pc; the probes    *)
(* whose results the properties talk about are modelled statement by       *)
(* statement (one action per loop iteration), and the tester as a whole is *)
(* modelled with one call step and one return/raise step per probe.        *)
(*                                                                         *)
(* Python containers indexed from 0 are functions over 0..len-1.           *)
(***************************************************************************)
EXTENDS Integers, Sequences, FiniteSets

\* ------------------------------------------------------------------ bounds
\* Largest argument n of test_cpu_fibonacci explored.
MaxFibN == 9
\* Largest argument n of test_cpu_prime explored.
MaxSieveN == 100
\* Largest size_mb of test_memory explored.
MaxMemMb == 2
\* Bytes per megabyte in the model of test_memory.  The program multiplies
\* size_mb by 1024*1024; the model keeps the buffer explicit, byte by byte,
\* and scales the megabyte down to a size that still wraps the 0..255 pattern.
MemUnit == 300
\* Largest size_mb of test_disk explored.
MaxDiskMb == 1
\* Longest temperatures list and largest temperature explored.
MaxLen == 4
MaxTemp == 3
\* Largest elapsed wall-clock time (in clock ticks) between two time.time() reads.
MaxTicks == 2

\* ------------------------------------------------------- program constants
ByteRange == 256
KiB == 1024
DefaultFibN == 35
DefaultPrimeN == 1000000
DefaultMatrixSize == 2000
DefaultSizeMb == 1024
DefaultBlockKb == 4

VARIABLES
    pc,            \* control point of the function under execution
    results,       \* self.results: probe key -> record
    completed,     \* history: keys of the probes that ran to completion
    \* --- script / run_all_tests
    numpy_available, \* environment: `import numpy` succeeds
    matrix_disabled, \* tester.test_cpu_matrix has been replaced by lambda: None
    entry,         \* how run_all_tests was entered: "script", "direct" or "none"
    disk_test,     \* argument of run_all_tests
    active,        \* the probe whose body is executing with its arguments, or NoProbe
    calls,         \* history: probe calls made, in order
    console,       \* lines printed
    report,        \* local `report` of run_all_tests (NoReport before it is built)
    reportFile,    \* content of performance_report.txt (NoFile when absent)
    exc,           \* the probe whose exception has left run_all_tests, or "none"
    \* --- test_cpu_fibonacci
    fib_n, fib_stack, fib_ret,
    \* --- test_cpu_prime
    prime_n, sieve, sieve_i,
    \* --- test_memory
    size_mb, data, mem_i, sum_val,
    \* --- test_disk
    disk_args, fs, f, disk_i,
    \* --- dailyTemperatures
    temperatures, answer, stack, dt_i, pushes, pops

testerVars == <<results, completed>>
runVars == <<numpy_available, matrix_disabled, entry, disk_test, active, calls, console,
             report, reportFile, exc>>
fibVars == <<fib_n, fib_stack, fib_ret>>
sieveVars == <<prime_n, sieve, sieve_i>>
memVars == <<size_mb, data, mem_i, sum_val>>
diskVars == <<disk_args, fs, f, disk_i>>
dailyVars == <<temperatures, answer, stack, dt_i, pushes, pops>>
vars == <<pc, testerVars, runVars, fibVars, sieveVars, memVars, diskVars, dailyVars>>

\* ------------------------------------------------------------- common parts
ProbeKeys == {"cpu_fibonacci", "cpu_prime", "cpu_matrix", "memory", "disk"}

\* Elapsed times end - start that the wall clock can yield.
Ticks == 0..MaxTicks

EmptyMap == [k \in {} |-> 0]

\* self.results[k] = v
Put(m, k, v) == [x \in (DOMAIN m) \cup {k} |-> IF x = k THEN v ELSE m[x]]

NoReport == <<"no report">>
NoFile == <<"no file">>
NoProbe == [probe |-> "none", args |-> << >>]

\* PerformanceTester.__init__: self.results = {}
TesterInit ==
    /\ results = EmptyMap
    /\ completed = {}

\* Parts of the state a specification does not use stay at these values.
RunIdle ==
    /\ numpy_available = TRUE
    /\ matrix_disabled = FALSE
    /\ entry = "none"
    /\ disk_test = TRUE
    /\ active = NoProbe
    /\ calls = << >>
    /\ console = << >>
    /\ report = NoReport
    /\ reportFile = NoFile
    /\ exc = "none"
FibIdle == fib_n = 0 /\ fib_stack = << >> /\ fib_ret = 0
SieveIdle == prime_n = 0 /\ sieve = << >> /\ sieve_i = 0
MemIdle == size_mb = 0 /\ data = << >> /\ mem_i = 0 /\ sum_val = 0
DiskIdle == disk_args = << >> /\ fs = {} /\ f = << >> /\ disk_i = 0
DailyIdle ==
    /\ temperatures = << >>
    /\ answer = << >>
    /\ stack = << >>
    /\ dt_i = 0
    /\ pushes = << >>
    /\ pops = << >>

\* =========================================================================
\* test_cpu_fibonacci(n)                          Performance.py lines 23-36
\* =========================================================================
\* The nested function fib is evaluated on an explicit call stack: a frame
\* holds the argument x, how far the body `fib(x-1) + fib(x-2)` has got
\* (stage 0: entered, 1: fib(x-1) running, 2: fib(x-2) running) and the value
\* of fib(x-1) once known.  fib_ret is the value last returned.

\* Mutant of FibBase: the base case taken one step too far.
FibBaseOffByOne(x) == x <= 2

\* `x if x <= 1 else ...`: the condition of the conditional expression.
FibBase(x) == x <= 1

Frame(x) == [x |-> x, stage |-> 0, acc |-> 0]

Top(s) == s[Len(s)]
Pop(s) == SubSeq(s, 1, Len(s) - 1)
ReplaceTop(s, fr) == [s EXCEPT ![Len(s)] = fr]

FibArgs == 0..MaxFibN

FibInit ==
    /\ pc = "fib_entry"
    /\ TesterInit
    /\ fib_n \in FibArgs
    /\ fib_stack = << >>
    /\ fib_ret = 0
    /\ RunIdle /\ SieveIdle /\ MemIdle /\ DiskIdle /\ DailyIdle

\* start_time = time.time(); result = fib(n): the outermost call is made.
FibCall ==
    /\ pc = "fib_entry"
    /\ fib_stack' = <<Frame(fib_n)>>
    /\ pc' = "fib_eval"
    /\ UNCHANGED <<fib_n, fib_ret, testerVars, runVars, sieveVars, memVars, diskVars, dailyVars>>

\* fib(x) returns x: the base case.
FibReturnBase ==
    /\ pc = "fib_eval"
    /\ fib_stack # << >>
    /\ Top(fib_stack).stage = 0
    /\ FibBase(Top(fib_stack).x)
    /\ fib_ret' = Top(fib_stack).x
    /\ fib_stack' = Pop(fib_stack)
    /\ UNCHANGED <<pc, fib_n, testerVars, runVars, sieveVars, memVars, diskVars, dailyVars>>

\* fib(x) calls fib(x-1).
FibCallFirst ==
    /\ pc = "fib_eval"
    /\ fib_stack # << >>
    /\ Top(fib_stack).stage = 0
    /\ ~FibBase(Top(fib_stack).x)
    /\ fib_stack' = Append(ReplaceTop(fib_stack, [Top(fib_stack) EXCEPT !.stage = 1]),
                           Frame(Top(fib_stack).x - 1))
    /\ UNCHANGED <<pc, fib_n, fib_ret, testerVars, runVars, sieveVars, memVars, diskVars, dailyVars>>

\* fib(x-1) has returned: keep its value and call fib(x-2).
FibCallSecond ==
    /\ pc = "fib_eval"
    /\ fib_stack # << >>
    /\ Top(fib_stack).stage = 1
    /\ fib_stack' = Append(ReplaceTop(fib_stack,
                               [Top(fib_stack) EXCEPT !.stage = 2, !.acc = fib_ret]),
                           Frame(Top(fib_stack).x - 2))
    /\ UNCHANGED <<pc, fib_n, fib_ret, testerVars, runVars, sieveVars, memVars, diskVars, dailyVars>>

\* fib(x-2) has returned: fib(x) returns the sum.
FibReturnSum ==
    /\ pc = "fib_eval"
    /\ fib_stack # << >>
    /\ Top(fib_stack).stage = 2
    /\ fib_ret' = Top(fib_stack).acc + fib_ret
    /\ fib_stack' = Pop(fib_stack)
    /\ UNCHANGED <<pc, fib_n, testerVars, runVars, sieveVars, memVars, diskVars, dailyVars>>

\* end_time = time.time(); self.results['cpu_fibonacci'] = {...}; return it.
FibStore ==
    /\ pc = "fib_eval"
    /\ fib_stack = << >>
    /\ \E t \in Ticks :
         results' = Put(results, "cpu_fibonacci",
                        [n |-> fib_n, result |-> fib_ret, time |-> t])
    /\ completed' = completed \cup {"cpu_fibonacci"}
    /\ pc' = "returned"
    /\ UNCHANGED <<fibVars, runVars, sieveVars, memVars, diskVars, dailyVars>>

FibNext ==
    \/ FibCall
    \/ FibReturnBase
    \/ FibCallFirst
    \/ FibCallSecond
    \/ FibReturnSum
    \/ FibStore

SpecFib == FibInit /\ [][FibNext]_vars

\* The standard Fibonacci numbers: F(0)=0, F(1)=1, F(k)=F(k-1)+F(k-2).
StdFib[k \in Nat] == IF k = 0 THEN 0 ELSE IF k = 1 THEN 1 ELSE StdFib[k - 1] + StdFib[k - 2]

\* C9: for every n >= 0, once test_cpu_fibonacci(n) has returned, the record
\* stored under cpu_fibonacci holds result = F(n), the standard Fibonacci
\* number, and n = the argument passed in.
C9_FibonacciCorrect ==
    pc = "returned" =>
        /\ "cpu_fibonacci" \in DOMAIN results
        /\ results["cpu_fibonacci"].result = StdFib[fib_n]
        /\ results["cpu_fibonacci"].n = fib_n

\* A call with the largest argument explored has returned 34 = F(9) > 1.
C9_Witness ==
    /\ pc = "returned"
    /\ fib_n >= 9
    /\ results["cpu_fibonacci"].result >= 34

\* =========================================================================
\* test_cpu_prime(n)                              Performance.py lines 38-55
\* =========================================================================
\* int(math.sqrt(n)): the integer part of the square root.
ISqrt(n) == CHOOSE r \in 0..n : r * r <= n /\ (r + 1) * (r + 1) > n

\* Mutant of SieveStop: the `+ 1` of the range's stop forgotten.
SieveStopNoPlusOne(n) == ISqrt(n)

\* range(2, int(math.sqrt(n)) + 1): the stop value (exclusive).
SieveStop(n) == ISqrt(n) + 1

\* The indices selected by the extended slice [start : stop : step] of a
\* list of length len (start, stop >= 0, step > 0).
SliceIndices(start, stop, step, len) ==
    {k \in 0..(len - 1) : k >= start /\ k < stop /\ (k - start) % step = 0}

\* sieve[i*i : n+1 : i] = [False] * len(sieve[i*i : n+1 : i])
ClearSlice(s, i, n) ==
    [k \in DOMAIN s |->
        IF k \in SliceIndices(i * i, n + 1, i, n + 1) THEN FALSE ELSE s[k]]

\* sum(sieve): the number of True entries.
SumSieve(s) == Cardinality({k \in DOMAIN s : s[k]})

PrimeArgs == 0..MaxSieveN

PrimeInit ==
    /\ pc = "prime_entry"
    /\ TesterInit
    /\ prime_n \in PrimeArgs
    /\ sieve = << >>
    /\ sieve_i = 0
    /\ RunIdle /\ FibIdle /\ MemIdle /\ DiskIdle /\ DailyIdle

\* sieve = [True] * (n + 1); sieve[0] = sieve[1] = False
\* (a list shorter than 2 has no index 1: IndexError).
PrimeAlloc ==
    /\ pc = "prime_entry"
    /\ IF prime_n + 1 < 2
       THEN /\ pc' = "raised"
            /\ UNCHANGED <<sieve, sieve_i>>
       ELSE /\ sieve' = [k \in 0..prime_n |-> k >= 2]
            /\ sieve_i' = 2
            /\ pc' = "prime_loop"
    /\ UNCHANGED <<prime_n, testerVars, runVars, fibVars, memVars, diskVars, dailyVars>>

\* One iteration of `for i in range(2, int(math.sqrt(n)) + 1)`.
PrimeLoopStep ==
    /\ pc = "prime_loop"
    /\ sieve_i < SieveStop(prime_n)
    /\ sieve' = IF sieve[sieve_i] THEN ClearSlice(sieve, sieve_i, prime_n) ELSE sieve
    /\ sieve_i' = sieve_i + 1
    /\ UNCHANGED <<pc, prime_n, testerVars, runVars, fibVars, memVars, diskVars, dailyVars>>

\* prime_count = sum(sieve); self.results['cpu_prime'] = {...}; return it.
PrimeStore ==
    /\ pc = "prime_loop"
    /\ sieve_i >= SieveStop(prime_n)
    /\ \E t \in Ticks :
         results' = Put(results, "cpu_prime",
                        [n |-> prime_n, prime_count |-> SumSieve(sieve), time |-> t])
    /\ completed' = completed \cup {"cpu_prime"}
    /\ pc' = "returned"
    /\ UNCHANGED <<sieveVars, runVars, fibVars, memVars, diskVars, dailyVars>>

PrimeNext ==
    \/ PrimeAlloc
    \/ PrimeLoopStep
    \/ PrimeStore

SpecPrime == PrimeInit /\ [][PrimeNext]_vars

\* The primes <= n, by trial division.
PrimesUpTo(n) == {p \in 2..n : \A d \in 2..(p - 1) : p % d # 0}

\* What one loop iteration at index i may change: the entries at the
\* multiples of i from i*i on become False when i is still marked prime,
\* and nothing else changes.
ClearsExactlyMultiples ==
    (pc = "prime_loop" /\ pc' = "prime_loop") =>
        \A k \in 0..prime_n :
            sieve'[k] = (sieve[k] /\ ~(/\ sieve[sieve_i]
                                        /\ k >= sieve_i * sieve_i
                                        /\ k % sieve_i = 0))

\* C7: for every n >= 2, the prime_count that test_cpu_prime(n) records is the
\* number of primes <= n, and every iteration of the sieve loop clears exactly
\* the multiples of i starting at i*i, for the indices i from 2 to
\* floor(sqrt(n)) that are still marked prime.
C7_PrimeCountCorrect ==
    /\ [](pc = "returned" /\ prime_n >= 2 =>
            /\ results["cpu_prime"].prime_count = Cardinality(PrimesUpTo(prime_n))
            /\ results["cpu_prime"].n = prime_n
            /\ sieve_i = ISqrt(prime_n) + 1)
    /\ [][ClearsExactlyMultiples]_vars

\* test_cpu_prime(100) has returned with prime_count 25.
C7_Witness ==
    /\ pc = "returned"
    /\ prime_n = 100
    /\ results["cpu_prime"].prime_count = 25

\* =========================================================================
\* test_memory(size_mb)                          Performance.py lines 75-102
\* =========================================================================
\* size_bytes = size_mb * 1024 * 1024, with the megabyte scaled to MemUnit.
SizeBytes(mb) == mb * MemUnit

\* Mutant of PatternByte: the modulus one short.
PatternByteShort(i) == i % (ByteRange - 1)

\* The value written at index i: i % 256.
PatternByte(i) == i % ByteRange

\* A throughput size_mb / elapsed, kept as the pair it is computed from.
Speed(mb, t) == [mb |-> mb, per |-> t]

MemArgs == 0..MaxMemMb

MemInit ==
    /\ pc = "mem_entry"
    /\ TesterInit
    /\ size_mb \in MemArgs
    /\ data = << >>
    /\ mem_i = 0
    /\ sum_val = 0
    /\ RunIdle /\ FibIdle /\ SieveIdle /\ DiskIdle /\ DailyIdle

\* data = bytearray(size_bytes): a zero-filled buffer, or MemoryError.
MemAlloc ==
    /\ pc = "mem_entry"
    /\ \/ /\ data' = [k \in 0..(SizeBytes(size_mb) - 1) |-> 0]
          /\ mem_i' = 0
          /\ pc' = "mem_write"
       \/ /\ pc' = "raised"
          /\ UNCHANGED <<data, mem_i>>
    /\ UNCHANGED <<size_mb, sum_val, testerVars, runVars, fibVars, sieveVars, diskVars, dailyVars>>

\* One iteration of the write loop: data[i] = i % 256.  A bytearray holds
\* values in range(256) only; any other value is a ValueError.
MemWriteStep ==
    /\ pc = "mem_write"
    /\ mem_i < SizeBytes(size_mb)
    /\ IF PatternByte(mem_i) \in 0..(ByteRange - 1)
       THEN /\ data' = [data EXCEPT ![mem_i] = PatternByte(mem_i)]
            /\ mem_i' = mem_i + 1
            /\ pc' = pc
       ELSE /\ pc' = "raised"
            /\ UNCHANGED <<data, mem_i>>
    /\ UNCHANGED <<size_mb, sum_val, testerVars, runVars, fibVars, sieveVars, diskVars, dailyVars>>

\* The write loop is exhausted: sum_val = 0 and the read loop starts.
MemWriteDone ==
    /\ pc = "mem_write"
    /\ mem_i >= SizeBytes(size_mb)
    /\ sum_val' = 0
    /\ mem_i' = 0
    /\ pc' = "mem_read"
    /\ UNCHANGED <<size_mb, data, testerVars, runVars, fibVars, sieveVars, diskVars, dailyVars>>

\* One iteration of the read loop: sum_val += data[i].
MemReadStep ==
    /\ pc = "mem_read"
    /\ mem_i < SizeBytes(size_mb)
    /\ sum_val' = sum_val + data[mem_i]
    /\ mem_i' = mem_i + 1
    /\ UNCHANGED <<pc, size_mb, data, testerVars, runVars, fibVars, sieveVars, diskVars, dailyVars>>

\* write_speed = size_mb / (end_write - start_write), read_speed likewise
\* (ZeroDivisionError when the clock did not advance), then the record is
\* stored and returned.
MemStore ==
    /\ pc = "mem_read"
    /\ mem_i >= SizeBytes(size_mb)
    /\ \E tw \in Ticks, tr \in Ticks :
         IF tw = 0 \/ tr = 0
         THEN /\ pc' = "raised"
              /\ UNCHANGED <<results, completed>>
         ELSE /\ results' = Put(results, "memory",
                                [size_mb |-> size_mb,
                                 write_speed_mb_per_sec |-> Speed(size_mb, tw),
                                 read_speed_mb_per_sec |-> Speed(size_mb, tr),
                                 checksum |-> sum_val])
              /\ completed' = completed \cup {"memory"}
              /\ pc' = "returned"
    /\ UNCHANGED <<memVars, runVars, fibVars, sieveVars, diskVars, dailyVars>>

MemNext ==
    \/ MemAlloc
    \/ MemWriteStep
    \/ MemWriteDone
    \/ MemReadStep
    \/ MemStore

SpecMem == MemInit /\ [][MemNext]_vars

\* The sum of i % 256 over lo <= i <= hi, by halving the interval.
RECURSIVE SumRange(_, _)
SumRange(lo, hi) ==
    IF lo > hi THEN 0
    ELSE IF lo = hi THEN lo % 256
    ELSE LET mid == (lo + hi) \div 2
         IN SumRange(lo, mid) + SumRange(mid + 1, hi)

\* sum(i % 256 for i in range(n))
SumPattern(n) == SumRange(0, n - 1)

\* C8: for every size_mb for which test_memory completes, the checksum recorded
\* is sum(i % 256 for i in range(size_bytes)), whatever the measured times;
\* once the write phase is over every byte data[i] holds i % 256.
C8_ChecksumCorrect ==
    /\ pc \in {"mem_read", "returned"} =>
           \A k \in DOMAIN data : data[k] = k % 256
    /\ pc = "returned" =>
           /\ results["memory"].checksum = SumPattern(SizeBytes(size_mb))
           /\ results["memory"].size_mb = size_mb

\* A run over a buffer longer than one 0..255 period has returned, both
\* clock differences being positive.
C8_Witness ==
    /\ pc = "returned"
    /\ SizeBytes(size_mb) > 2 * 256
    /\ results["memory"].checksum > 0
    /\ results["memory"].write_speed_mb_per_sec.per # results["memory"].read_speed_mb_per_sec.per

\* =========================================================================
\* dailyTemperatures(temperatures)                    leetcode.py lines 6-14
\* =========================================================================
Temps == (-1)..MaxTemp

\* Mutant of Warmer: the comparison made non-strict.
WarmerOrEqual(a, b) == a >= b

\* temperatures[i] > temperatures[stack[-1]]: the comparison of the while loop.
Warmer(a, b) == a > b

DailyInit ==
    /\ pc = "dt_entry"
    /\ \E n \in 0..MaxLen : temperatures \in [0..(n - 1) -> Temps]
    /\ answer = << >>
    /\ stack = << >>
    /\ dt_i = 0
    /\ pushes = << >>
    /\ pops = << >>
    /\ TesterInit
    /\ RunIdle /\ FibIdle /\ SieveIdle /\ MemIdle /\ DiskIdle

\* answer = [0]*len(temperatures); stack = []; the for loop starts at i = 0.
DtEnter ==
    /\ pc = "dt_entry"
    /\ answer' = [k \in DOMAIN temperatures |-> 0]
    /\ stack' = << >>
    /\ dt_i' = 0
    /\ pushes' = [k \in DOMAIN temperatures |-> 0]
    /\ pops' = [k \in DOMAIN temperatures |-> 0]
    /\ pc' = "dt_for"
    /\ UNCHANGED <<temperatures, testerVars, runVars, fibVars, sieveVars, memVars, diskVars>>

\* for i in range(len(temperatures)): the next i enters the loop body.
DtFor ==
    /\ pc = "dt_for"
    /\ dt_i < Cardinality(DOMAIN temperatures)
    /\ pc' = "dt_while"
    /\ UNCHANGED <<dailyVars, testerVars, runVars, fibVars, sieveVars, memVars, diskVars>>

\* The while condition holds: answer[stack[-1]] = i - stack[-1]; stack.pop().
DtPop ==
    /\ pc = "dt_while"
    /\ Len(stack) > 0
    /\ Warmer(temperatures[dt_i], temperatures[Top(stack)])
    /\ answer' = [answer EXCEPT ![Top(stack)] = dt_i - Top(stack)]
    /\ pops' = [pops EXCEPT ![Top(stack)] = @ + 1]
    /\ stack' = Pop(stack)
    /\ UNCHANGED <<pc, temperatures, dt_i, pushes, testerVars, runVars, fibVars, sieveVars,
                   memVars, diskVars>>

\* The while condition fails: stack.append(i), and the for loop goes on.
DtPush ==
    /\ pc = "dt_while"
    /\ ~(Len(stack) > 0 /\ Warmer(temperatures[dt_i], temperatures[Top(stack)]))
    /\ stack' = Append(stack, dt_i)
    /\ pushes' = [pushes EXCEPT ![dt_i] = @ + 1]
    /\ dt_i' = dt_i + 1
    /\ pc' = "dt_for"
    /\ UNCHANGED <<temperatures, answer, pops, testerVars, runVars, fibVars, sieveVars,
                   memVars, diskVars>>

\* The range is exhausted: return answer.
DtReturn ==
    /\ pc = "dt_for"
    /\ dt_i >= Cardinality(DOMAIN temperatures)
    /\ pc' = "returned"
    /\ UNCHANGED <<dailyVars, testerVars, runVars, fibVars, sieveVars, memVars, diskVars>>

DailyNext ==
    \/ DtEnter
    \/ DtFor
    \/ DtPop
    \/ DtPush
    \/ DtReturn

SpecDaily == DailyInit /\ [][DailyNext]_vars

\* The indices after i with a strictly greater temperature.
WarmerAfter(i) ==
    {j \in DOMAIN temperatures : j > i /\ temperatures[j] > temperatures[i]}

\* The distance from i to the nearest such index, 0 when there is none.
NextWarmerDistance(i) ==
    IF WarmerAfter(i) = {}
    THEN 0
    ELSE (CHOOSE j \in WarmerAfter(i) : \A k \in WarmerAfter(i) : j <= k) - i

\* C10: the list returned has the length of temperatures and answer[i] is the
\* smallest distance to a later strictly warmer index, 0 when there is none;
\* at every point of the pass the stack holds strictly increasing indices whose
\* temperatures are non-increasing from bottom to top; every index is pushed
\* exactly once by the end and at most once at any time, and popped at most once.
C10_DailyTemperaturesCorrect ==
    /\ pc = "returned" =>
           /\ DOMAIN answer = DOMAIN temperatures
           /\ \A i \in DOMAIN temperatures : answer[i] = NextWarmerDistance(i)
           /\ \A i \in DOMAIN temperatures : pushes[i] = 1
    /\ pc # "dt_entry" =>
           /\ \A a \in 1..Len(stack), b \in 1..Len(stack) :
                  a < b => /\ stack[a] < stack[b]
                           /\ temperatures[stack[a]] >= temperatures[stack[b]]
           /\ \A i \in DOMAIN temperatures : pushes[i] <= 1 /\ pops[i] <= 1

\* A pass over a list of at least four temperatures has returned, with an
\* answer of distance 2 or more, an index that was popped, and two indices
\* left on the stack with answer 0.
C10_Witness ==
    /\ pc = "returned"
    /\ Cardinality(DOMAIN temperatures) >= 4
    /\ \E i \in DOMAIN answer : answer[i] >= 2 /\ pops[i] = 1
    /\ Len(stack) >= 2
    /\ \A a \in 1..Len(stack) : answer[stack[a]] = 0

\* =========================================================================
\* test_disk(size_mb, block_size_kb)            Performance.py lines 104-145
\* =========================================================================
\* fs is the set of names present in the temporary directory; f is the file
\* object of the with statement (its name, whether it is open, the blocks
\* written and the read position), << >> before it exists.
TempName == "tmpfile"

BlockKbChoices == {0, DefaultBlockKb, KiB}

\* block_size = block_size_kb * 1024
BlockSize(kb) == kb * KiB

\* blocks = (size_mb * 1024 * 1024) // block_size
Blocks(mb, kb) == (mb * KiB * KiB) \div BlockSize(kb)

DiskInit ==
    /\ pc = "disk_entry"
    /\ TesterInit
    /\ disk_args \in [size_mb : 0..MaxDiskMb, block_size_kb : BlockKbChoices]
    /\ fs = {}
    /\ f = << >>
    /\ disk_i = 0
    /\ RunIdle /\ FibIdle /\ SieveIdle /\ MemIdle /\ DailyIdle

\* block_size, blocks and data are computed: the floor division raises
\* ZeroDivisionError when block_size is 0.
DiskPrepare ==
    /\ pc = "disk_entry"
    /\ pc' = IF BlockSize(disk_args.block_size_kb) = 0 THEN "raised" ELSE "disk_open"
    /\ UNCHANGED <<diskVars, testerVars, runVars, fibVars, sieveVars, memVars, dailyVars>>

\* with tempfile.NamedTemporaryFile(delete=False) as f: temp_file = f.name.
\* The file is created, or the creation fails with OSError and creates nothing.
DiskOpen ==
    /\ pc = "disk_open"
    /\ \/ /\ fs' = fs \cup {TempName}
          /\ f' = [name |-> TempName, open |-> TRUE, written |-> 0, pos |-> 0]
          /\ disk_i' = 0
          /\ pc' = "disk_write"
       \/ /\ pc' = "raised"
          /\ UNCHANGED <<fs, f, disk_i>>
    /\ UNCHANGED <<disk_args, testerVars, runVars, fibVars, sieveVars, memVars, dailyVars>>

\* An exception inside the with block: the context manager closes the file
\* (delete=False: it does not remove it) and the exception leaves test_disk.
DiskRaiseInWith ==
    /\ f' = [f EXCEPT !.open = FALSE]
    /\ pc' = "raised"
    /\ UNCHANGED <<disk_args, fs, disk_i>>

\* One iteration of the write loop: f.write(data), or OSError (disk full).
DiskWriteStep ==
    /\ pc = "disk_write"
    /\ disk_i < Blocks(disk_args.size_mb, disk_args.block_size_kb)
    /\ \/ /\ f' = [f EXCEPT !.written = @ + 1, !.pos = @ + 1]
          /\ disk_i' = disk_i + 1
          /\ UNCHANGED <<pc, disk_args, fs>>
       \/ DiskRaiseInWith
    /\ UNCHANGED <<testerVars, runVars, fibVars, sieveVars, memVars, dailyVars>>

\* f.flush(); os.fsync(f.fileno()); f.seek(0): the read loop starts, or
\* flush/fsync fail with OSError.
DiskSync ==
    /\ pc = "disk_write"
    /\ disk_i >= Blocks(disk_args.size_mb, disk_args.block_size_kb)
    /\ \/ /\ f' = [f EXCEPT !.pos = 0]
          /\ disk_i' = 0
          /\ pc' = "disk_read"
          /\ UNCHANGED <<disk_args, fs>>
       \/ DiskRaiseInWith
    /\ UNCHANGED <<testerVars, runVars, fibVars, sieveVars, memVars, dailyVars>>

\* One iteration of the read loop: f.read(block_size), or OSError.
DiskReadStep ==
    /\ pc = "disk_read"
    /\ disk_i < Blocks(disk_args.size_mb, disk_args.block_size_kb)
    /\ \/ /\ f' = [f EXCEPT !.pos = @ + 1]
          /\ disk_i' = disk_i + 1
          /\ UNCHANGED <<pc, disk_args, fs>>
       \/ DiskRaiseInWith
    /\ UNCHANGED <<testerVars, runVars, fibVars, sieveVars, memVars, dailyVars>>

\* The with block ends normally: the file is closed.
DiskClose ==
    /\ pc = "disk_read"
    /\ disk_i >= Blocks(disk_args.size_mb, disk_args.block_size_kb)
    /\ f' = [f EXCEPT !.open = FALSE]
    /\ pc' = "disk_speed"
    /\ UNCHANGED <<disk_args, fs, disk_i, testerVars, runVars, fibVars, sieveVars, memVars,
                   dailyVars>>

\* write_speed and read_speed are computed (ZeroDivisionError when a clock
\* difference is 0); then os.remove(temp_file), the record is stored and
\* returned.
DiskFinish ==
    /\ pc = "disk_speed"
    /\ \E tw \in Ticks, tr \in Ticks :
         IF tw = 0 \/ tr = 0
         THEN /\ pc' = "raised"
              /\ UNCHANGED <<fs, results, completed>>
         ELSE /\ fs' = fs \ {f.name}
              /\ results' = Put(results, "disk",
                                [size_mb |-> disk_args.size_mb,
                                 block_size_kb |-> disk_args.block_size_kb,
                                 write_speed_mb_per_sec |-> Speed(disk_args.size_mb, tw),
                                 read_speed_mb_per_sec |-> Speed(disk_args.size_mb, tr)])
              /\ completed' = completed \cup {"disk"}
              /\ pc' = "returned"
    /\ UNCHANGED <<disk_args, f, disk_i, runVars, fibVars, sieveVars, memVars, dailyVars>>

DiskNext ==
    \/ DiskPrepare
    \/ DiskOpen
    \/ DiskWriteStep
    \/ DiskSync
    \/ DiskReadStep
    \/ DiskClose
    \/ DiskFinish

SpecDisk == DiskInit /\ [][DiskNext]_vars

\* C4: in every execution in which the temporary file has been created, once
\* test_disk has ended, by returning or by an exception, the temporary file no
\* longer exists.
C4_TempFileDeletedRegardless ==
    (pc \in {"returned", "raised"} /\ f # << >>) => f.name \notin fs

\* =========================================================================
\* PerformanceTester as a whole                   Performance.py lines 15-145
\* =========================================================================
\* At this level a probe is one call step and one return-or-raise step.  The
\* values a probe computes (result, prime_count, checksum) are kept as the
\* term <<what, argument>>; the specifications above model how they are
\* computed.

Computed(what, arg) == <<what, arg>>

\* The arguments a caller passes: the defaults, and for test_cpu_prime and
\* test_disk also an argument with which the body cannot complete.
ArgChoices(p) ==
    CASE p = "cpu_fibonacci" -> {[n |-> DefaultFibN]}
      [] p = "cpu_prime"     -> {[n |-> 0], [n |-> DefaultPrimeN]}
      [] p = "cpu_matrix"    -> {[size |-> DefaultMatrixSize]}
      [] p = "memory"        -> {[size_mb |-> DefaultSizeMb]}
      [] p = "disk"          -> {[size_mb |-> DefaultSizeMb, block_size_kb |-> 0],
                                 [size_mb |-> DefaultSizeMb, block_size_kb |-> DefaultBlockKb]}

DefaultArgs(p) ==
    CASE p = "cpu_fibonacci" -> [n |-> DefaultFibN]
      [] p = "cpu_prime"     -> [n |-> DefaultPrimeN]
      [] p = "cpu_matrix"    -> [size |-> DefaultMatrixSize]
      [] p = "memory"        -> [size_mb |-> DefaultSizeMb]
      [] p = "disk"          -> [size_mb |-> DefaultSizeMb, block_size_kb |-> DefaultBlockKb]

\* The records each probe stores in self.results when it completes.
FibonacciRecord(a, t) ==
    [n |-> a.n, result |-> Computed("fib", a.n), time |-> t]
PrimeRecord(a, t) ==
    [n |-> a.n, prime_count |-> Computed("prime_count", a.n), time |-> t]
MatrixRecord(a, t) ==
    [matrix_size |-> <<a.size, a.size>>, time |-> t]
MemoryRecord(a, tw, tr) ==
    [size_mb |-> a.size_mb,
     write_speed_mb_per_sec |-> Speed(a.size_mb, tw),
     read_speed_mb_per_sec |-> Speed(a.size_mb, tr),
     checksum |-> Computed("checksum", a.size_mb)]
DiskRecord(a, tw, tr) ==
    [size_mb |-> a.size_mb,
     block_size_kb |-> a.block_size_kb,
     write_speed_mb_per_sec |-> Speed(a.size_mb, tw),
     read_speed_mb_per_sec |-> Speed(a.size_mb, tr)]

\* The records a completing call of probe p with arguments a can store: the
\* elapsed times vary; a throughput needs a positive elapsed time.
ProbeRecords(p, a) ==
    CASE p = "cpu_fibonacci" -> {FibonacciRecord(a, t) : t \in Ticks}
      [] p = "cpu_prime"     -> {PrimeRecord(a, t) : t \in Ticks}
      [] p = "cpu_matrix"    -> {MatrixRecord(a, t) : t \in Ticks}
      [] p = "memory"        ->
            {MemoryRecord(a, t[1], t[2]) : t \in (Ticks \ {0}) \X (Ticks \ {0})}
      [] p = "disk"          ->
            {DiskRecord(a, t[1], t[2]) : t \in (Ticks \ {0}) \X (Ticks \ {0})}

\* The calls whose body cannot complete whatever the environment does:
\* sieve[1] of a one-element list (IndexError), `import numpy` without the
\* library (ImportError), floor division by a zero block size.
MustRaise(p, a) ==
    \/ p = "cpu_prime" /\ a.n + 1 < 2
    \/ p = "cpu_matrix" /\ ~numpy_available
    \/ p = "disk" /\ BlockSize(a.block_size_kb) = 0

\* The body of probe p runs to completion: its record is stored under its key.
Completes(p, a) ==
    /\ ~MustRaise(p, a)
    /\ \E r \in ProbeRecords(p, a) : results' = Put(results, p, r)
    /\ completed' = completed \cup {p}

\* Mutant of RaiseEffect: the key is stored before the statement that raises.
RaiseEffectAfterStore(p, a) ==
    /\ results' = Put(results, p, [partial |-> TRUE])
    /\ UNCHANGED completed

\* The body of probe p raises (the cases of MustRaise, MemoryError, OSError,
\* ZeroDivisionError on a clock difference of 0): every statement that can
\* raise precedes the assignment to self.results, so nothing is stored.
RaiseEffect(p, a) ==
    UNCHANGED <<results, completed>>

\* ---- any sequence of probe calls on one tester, made by a client that
\* ---- catches what a probe raises
ProbesInit ==
    /\ pc = "client"
    /\ TesterInit
    /\ numpy_available \in BOOLEAN
    /\ matrix_disabled = FALSE
    /\ entry = "none"
    /\ disk_test = TRUE
    /\ active = NoProbe
    /\ calls = << >>
    /\ console = << >>
    /\ report = NoReport
    /\ reportFile = NoFile
    /\ exc = "none"
    /\ FibIdle /\ SieveIdle /\ MemIdle /\ DiskIdle /\ DailyIdle

ClientCall(p, a) ==
    /\ pc \in {"client", "caught"}
    /\ active' = [probe |-> p, args |-> a]
    /\ pc' = "in_probe"
    /\ UNCHANGED <<testerVars, numpy_available, matrix_disabled, entry, disk_test, calls,
                   console, report, reportFile, exc, fibVars, sieveVars, memVars, diskVars,
                   dailyVars>>

ClientReturn ==
    /\ pc = "in_probe"
    /\ Completes(active.probe, active.args)
    /\ active' = NoProbe
    /\ pc' = "client"
    /\ UNCHANGED <<numpy_available, matrix_disabled, entry, disk_test, calls, console, report,
                   reportFile, exc, fibVars, sieveVars, memVars, diskVars, dailyVars>>

ClientRaise ==
    /\ pc = "in_probe"
    /\ RaiseEffect(active.probe, active.args)
    /\ active' = NoProbe
    /\ pc' = "caught"
    /\ UNCHANGED <<numpy_available, matrix_disabled, entry, disk_test, calls, console, report,
                   reportFile, exc, fibVars, sieveVars, memVars, diskVars, dailyVars>>

ProbesNext ==
    \/ \E p \in ProbeKeys : \E a \in ArgChoices(p) : ClientCall(p, a)
    \/ ClientReturn
    \/ ClientRaise

SpecProbes == ProbesInit /\ [][ProbesNext]_vars

\* What a step may do to the keys: none is removed, a call that raises adds
\* none, and a call that returns leaves its own key present.
KeysStep ==
    /\ DOMAIN results \subseteq DOMAIN results'
    /\ pc' = "caught" => DOMAIN results' = DOMAIN results
    /\ (pc = "in_probe" /\ pc' = "client") =>
           DOMAIN results' = DOMAIN results \cup {active.probe}

\* C1: after any sequence of probe calls, each returning or raising, a probe's
\* key is in self.results iff that probe ran to completion; a call that raises
\* adds no key and no step removes one.
C1_KeyIffCompleted ==
    /\ [](DOMAIN results = completed /\ completed \subseteq ProbeKeys)
    /\ [][KeysStep]_vars

\* A call has just raised on a tester that holds the keys of other probes,
\* completed earlier, and not the key of the matrix probe, which cannot
\* complete without the library.
C1_Witness ==
    /\ pc = "caught"
    /\ ~numpy_available
    /\ {"memory", "cpu_prime"} \subseteq DOMAIN results
    /\ "cpu_matrix" \notin DOMAIN results
    /\ "disk" \notin DOMAIN results

\* =========================================================================
\* get_system_info, generate_report             Performance.py lines 147-202
\* =========================================================================
\* The report is the sequence of its lines.  A line is a record: the part of
\* the report it belongs to (header, a probe key, footer), its kind (blank,
\* rule, title, info, metrics) and the values formatted into it.
Line(section, kind, values) == [section |-> section, kind |-> kind, values |-> values]

\* get_system_info(): the fields of the snapshot, each standing for its value.
SystemInfo ==
    [os |-> "os", hostname |-> "hostname", python_version |-> "python_version",
     cpu_model |-> "cpu_model", cpu_count |-> "cpu_count",
     memory_total_gb |-> "memory_total_gb", test_time |-> "test_time"]

\* Lines 163-172: the system-information header.
Header(info) ==
    << Line("header", "blank", << >>),
       Line("header", "rule", <<"=">>),
       Line("header", "title", << >>),
       Line("header", "rule", <<"-">>),
       Line("header", "info", <<info.os>>),
       Line("header", "info", <<info.hostname>>),
       Line("header", "info", <<info.python_version>>),
       Line("header", "info", <<info.cpu_model>>),
       Line("header", "info", <<info.cpu_count>>),
       Line("header", "info", <<info.memory_total_gb>>),
       Line("header", "info", <<info.test_time>>),
       Line("header", "rule", <<"=">>),
       Line("header", "blank", << >>) >>

\* Line 201: the closing rule.
Footer ==
    << Line("footer", "blank", << >>),
       Line("footer", "rule", <<"=">>) >>

\* Lines 175-199: `if key in self.results:` and the lines appended for the
\* record found there; nothing is appended for an absent key.
FibSection(res) ==
    IF "cpu_fibonacci" \in DOMAIN res
    THEN LET fib == res["cpu_fibonacci"]
         IN << Line("cpu_fibonacci", "metrics", <<fib.n, fib.time>>) >>
    ELSE << >>
PrimeSection(res) ==
    IF "cpu_prime" \in DOMAIN res
    THEN LET prime == res["cpu_prime"]
         IN << Line("cpu_prime", "metrics", <<prime.n, prime.prime_count, prime.time>>) >>
    ELSE << >>
MatrixSection(res) ==
    IF "cpu_matrix" \in DOMAIN res
    THEN LET matrix == res["cpu_matrix"]
         IN << Line("cpu_matrix", "metrics", <<matrix.matrix_size, matrix.time>>) >>
    ELSE << >>
MemorySection(res) ==
    IF "memory" \in DOMAIN res
    THEN LET mem == res["memory"]
         IN << Line("memory", "blank", << >>),
               Line("memory", "title", <<mem.size_mb>>),
               Line("memory", "metrics", <<"write", mem.write_speed_mb_per_sec>>),
               Line("memory", "metrics", <<"read", mem.read_speed_mb_per_sec>>) >>
    ELSE << >>
DiskSection(res) ==
    IF "disk" \in DOMAIN res
    THEN LET disk == res["disk"]
         IN << Line("disk", "blank", << >>),
               Line("disk", "title", <<disk.size_mb, disk.block_size_kb>>),
               Line("disk", "metrics", <<"write", disk.write_speed_mb_per_sec>>),
               Line("disk", "metrics", <<"read", disk.read_speed_mb_per_sec>>) >>
    ELSE << >>

\* Mutant of GenerateReport: the memory section rendered before the matrix line.
GenerateReportMemoryFirst(res, info) ==
    Header(info)
        \o FibSection(res)
        \o PrimeSection(res)
        \o MemorySection(res)
        \o MatrixSection(res)
        \o DiskSection(res)
        \o Footer

\* generate_report(): the text returned for the results res.
GenerateReport(res, info) ==
    Header(info)
        \o FibSection(res)
        \o PrimeSection(res)
        \o MatrixSection(res)
        \o MemorySection(res)
        \o DiskSection(res)
        \o Footer

\* A probe's key is absent, or holds a record a completed default call stores.
KeyOptions(k) ==
    {<<FALSE, << >> >>} \cup {<<TRUE, r>> : r \in ProbeRecords(k, DefaultArgs(k))}

\* The results mapping made of one option per key.
ResultsOf(opt) ==
    [k \in {x \in ProbeKeys : opt[x][1]} |-> opt[k][2]]

ReportInit ==
    /\ pc = "report_entry"
    /\ \E o1 \in KeyOptions("cpu_fibonacci"), o2 \in KeyOptions("cpu_prime"),
          o3 \in KeyOptions("cpu_matrix"), o4 \in KeyOptions("memory"),
          o5 \in KeyOptions("disk") :
         results = ResultsOf([k \in ProbeKeys |->
                        CASE k = "cpu_fibonacci" -> o1
                          [] k = "cpu_prime"     -> o2
                          [] k = "cpu_matrix"    -> o3
                          [] k = "memory"        -> o4
                          [] k = "disk"          -> o5])
    /\ completed = DOMAIN results
    /\ RunIdle /\ FibIdle /\ SieveIdle /\ MemIdle /\ DiskIdle /\ DailyIdle

\* report = self.generate_report()
GenerateReportCall ==
    /\ pc = "report_entry"
    /\ report' = GenerateReport(results, SystemInfo)
    /\ pc' = "returned"
    /\ UNCHANGED <<testerVars, numpy_available, matrix_disabled, entry, disk_test, active,
                   calls, console, reportFile, exc, fibVars, sieveVars, memVars, diskVars,
                   dailyVars>>

ReportNext ==
    \/ GenerateReportCall

SpecReport == ReportInit /\ [][ReportNext]_vars

\* The place of a section in the fixed order of the report.
Rank(section) ==
    CASE section = "header"        -> 0
      [] section = "cpu_fibonacci" -> 1
      [] section = "cpu_prime"     -> 2
      [] section = "cpu_matrix"    -> 3
      [] section = "memory"        -> 4
      [] section = "disk"          -> 5
      [] section = "footer"        -> 6

\* The positions of the lines of rep that belong to `section`, and those among
\* them that are metrics lines.
LinesOf(rep, section) == {i \in 1..Len(rep) : rep[i].section = section}
MetricsOf(rep, section) == {i \in LinesOf(rep, section) : rep[i].kind = "metrics"}

\* The number of metrics lines a probe's section has.
MetricsCount(k) == IF k \in {"memory", "disk"} THEN 2 ELSE 1

\* C6: for every subset of the five keys held in self.results, the report
\* starts with the system-information header, holds the section of a probe iff
\* its key is present, and its sections follow the order Fibonacci, prime,
\* matrix, memory, disk; results holding only cpu_prime give a report whose
\* only line between header and footer is the prime metrics line.
C6_ReportSections ==
    pc = "returned" =>
        /\ SubSeq(report, 1, Len(Header(SystemInfo))) = Header(SystemInfo)
        /\ \A k \in ProbeKeys :
               /\ (LinesOf(report, k) # {}) <=> (k \in DOMAIN results)
               /\ k \in DOMAIN results =>
                      Cardinality(MetricsOf(report, k)) = MetricsCount(k)
        /\ \A i \in 1..Len(report), j \in 1..Len(report) :
               i < j => Rank(report[i].section) <= Rank(report[j].section)
        /\ DOMAIN results = {"cpu_prime"} =>
               /\ Len(report) = Len(Header(SystemInfo)) + 1 + Len(Footer)
               /\ report[Len(Header(SystemInfo)) + 1].section = "cpu_prime"
               /\ report[Len(Header(SystemInfo)) + 1].kind = "metrics"
               /\ report[Len(Header(SystemInfo)) + 1].values =
                      <<results["cpu_prime"].n, results["cpu_prime"].prime_count,
                        results["cpu_prime"].time>>

\* A report has been generated for results that hold only cpu_prime.
C6_Witness ==
    /\ pc = "returned"
    /\ DOMAIN results = {"cpu_prime"}
    /\ Len(report) = 16

\* =========================================================================
\* run_all_tests(disk_test) and the script        Performance.py lines 204-252
\* =========================================================================
\* pc is the probe run_all_tests is at (about to call it, or inside it when
\* active names it), then "report", "save", "done"; "raised" once an exception
\* has left run_all_tests.  console holds what was printed, as pairs.
Msg(kind, what) == <<kind, what>>

OldReport == <<"report of an earlier run">>

\* The order of the calls in the body of run_all_tests.
RunOrder == <<"cpu_fibonacci", "cpu_prime", "cpu_matrix", "memory", "disk">>

\* Mutant of NextAfter: the `if disk_test:` guard dropped.
NextAfterNoGuard(p, dt) ==
    CASE p = "cpu_fibonacci" -> "cpu_prime"
      [] p = "cpu_prime"     -> "cpu_matrix"
      [] p = "cpu_matrix"    -> "memory"
      [] p = "memory"        -> "disk"
      [] p = "disk"          -> "report"

\* Where run_all_tests goes on once the call of probe p has returned.
NextAfter(p, dt) ==
    CASE p = "cpu_fibonacci" -> "cpu_prime"
      [] p = "cpu_prime"     -> "cpu_matrix"
      [] p = "cpu_matrix"    -> "memory"
      [] p = "memory"        -> IF dt THEN "disk" ELSE "report"
      [] p = "disk"          -> "report"

\* Mutant of AfterRaise: the exception swallowed and the run continued.
AfterRaiseContinue(p, dt) == NextAfter(p, dt)

\* Where control goes when the call of probe p raises: run_all_tests has no
\* try statement, so the exception leaves it.
AfterRaise(p, dt) == "raised"

\* Mutant of PatchOnImportError: the except clause does not replace the method.
PatchMissing(available) == FALSE

\* try: import numpy / except ImportError: ... tester.test_cpu_matrix =
\* lambda: None.  Whether the method is replaced.
PatchOnImportError(available) == ~available

RunInit ==
    /\ pc = "entry"
    /\ TesterInit
    /\ numpy_available \in BOOLEAN
    /\ matrix_disabled = FALSE
    /\ entry = "none"
    /\ disk_test = TRUE
    /\ active = NoProbe
    /\ calls = << >>
    /\ console = << >>
    /\ report = NoReport
    /\ reportFile \in {NoFile, OldReport}
    /\ exc = "none"
    /\ FibIdle /\ SieveIdle /\ MemIdle /\ DiskIdle /\ DailyIdle

\* The script (lines 241-252): a tester is built, numpy is probed, the matrix
\* probe is replaced when the import fails, and run_all_tests() is entered
\* with its default disk_test=True (line 206 prints the opening message).
ScriptMain ==
    /\ pc = "entry"
    /\ entry' = "script"
    /\ matrix_disabled' = PatchOnImportError(numpy_available)
    /\ console' = (IF numpy_available THEN << >> ELSE <<Msg("warning", "numpy")>>)
                      \o <<Msg("start", "")>>
    /\ disk_test' = TRUE
    /\ pc' = RunOrder[1]
    /\ UNCHANGED <<testerVars, numpy_available, active, calls, report, reportFile, exc,
                   fibVars, sieveVars, memVars, diskVars, dailyVars>>

\* run_all_tests(dt) called on a freshly built tester by other code.
CallRunAllTests(dt) ==
    /\ pc = "entry"
    /\ entry' = "direct"
    /\ disk_test' = dt
    /\ console' = <<Msg("start", "")>>
    /\ pc' = RunOrder[1]
    /\ UNCHANGED <<testerVars, numpy_available, matrix_disabled, active, calls, report,
                   reportFile, exc, fibVars, sieveVars, memVars, diskVars, dailyVars>>

\* The progress message is printed and self.test_<probe>() is called with
\* its default arguments.
RunCallProbe ==
    /\ pc \in ProbeKeys
    /\ active = NoProbe
    /\ ~(pc = "cpu_matrix" /\ matrix_disabled)
    /\ console' = Append(console, Msg("progress", pc))
    /\ calls' = Append(calls, pc)
    /\ active' = [probe |-> pc, args |-> DefaultArgs(pc)]
    /\ UNCHANGED <<pc, testerVars, numpy_available, matrix_disabled, entry, disk_test, report,
                   reportFile, exc, fibVars, sieveVars, memVars, diskVars, dailyVars>>

\* self.test_cpu_matrix() when the attribute is lambda: None: the call
\* returns None at once and the run prints its completion mark.
RunCallDisabledMatrix ==
    /\ pc = "cpu_matrix"
    /\ active = NoProbe
    /\ matrix_disabled
    /\ console' = console \o <<Msg("progress", pc), Msg("done", pc)>>
    /\ calls' = Append(calls, pc)
    /\ pc' = NextAfter(pc, disk_test)
    /\ UNCHANGED <<testerVars, numpy_available, matrix_disabled, entry, disk_test, active,
                   report, reportFile, exc, fibVars, sieveVars, memVars, diskVars, dailyVars>>

\* The probe returns: its record is stored, the completion mark is printed.
RunProbeReturn ==
    /\ pc \in ProbeKeys
    /\ active.probe = pc
    /\ Completes(pc, active.args)
    /\ console' = Append(console, Msg("done", pc))
    /\ active' = NoProbe
    /\ pc' = NextAfter(pc, disk_test)
    /\ UNCHANGED <<numpy_available, matrix_disabled, entry, disk_test, calls, report,
                   reportFile, exc, fibVars, sieveVars, memVars, diskVars, dailyVars>>

\* The probe raises: the exception leaves run_all_tests.
RunProbeRaise ==
    /\ pc \in ProbeKeys
    /\ active.probe = pc
    /\ RaiseEffect(pc, active.args)
    /\ exc' = pc
    /\ active' = NoProbe
    /\ pc' = AfterRaise(pc, disk_test)
    /\ UNCHANGED <<numpy_available, matrix_disabled, entry, disk_test, calls, console, report,
                   reportFile, fibVars, sieveVars, memVars, diskVars, dailyVars>>

\* report = self.generate_report(); print(report)
RunGenerateReport ==
    /\ pc = "report"
    /\ report' = GenerateReport(results, SystemInfo)
    /\ console' = Append(console, Msg("report", ""))
    /\ pc' = "save"
    /\ UNCHANGED <<testerVars, numpy_available, matrix_disabled, entry, disk_test, active,
                   calls, reportFile, exc, fibVars, sieveVars, memVars, diskVars, dailyVars>>

\* with open("performance_report.txt", "w", ...) as f: f.write(report), and
\* the closing message.
RunSaveReport ==
    /\ pc = "save"
    /\ reportFile' = report
    /\ console' = Append(console, Msg("saved", "performance_report.txt"))
    /\ pc' = "done"
    /\ UNCHANGED <<testerVars, numpy_available, matrix_disabled, entry, disk_test, active,
                   calls, report, exc, fibVars, sieveVars, memVars, diskVars, dailyVars>>

RunNext ==
    \/ ScriptMain
    \/ \E dt \in BOOLEAN : CallRunAllTests(dt)
    \/ RunCallProbe
    \/ RunCallDisabledMatrix
    \/ RunProbeReturn
    \/ RunProbeRaise
    \/ RunGenerateReport
    \/ RunSaveReport

SpecRun == RunInit /\ [][RunNext]_vars

Range(seq) == {seq[i] : i \in 1..Len(seq)}

IsPrefix(a, b) == Len(a) <= Len(b) /\ \A i \in 1..Len(a) : a[i] = b[i]

\* The calls a run with argument dt makes when no probe raises.
ExpectedCalls(dt) == IF dt THEN RunOrder ELSE SubSeq(RunOrder, 1, Len(RunOrder) - 1)

\* The call of probe p made by this run has returned normally.
ReturnedCall(p) == p \in completed \/ (p = "cpu_matrix" /\ matrix_disabled)

\* performance_report.txt has been written by this run.
ReportWritten == reportFile \notin {NoFile, OldReport}

\* The probes are called in the fixed order, each call made only after the
\* one before it has returned.
CallsInOrder ==
    /\ IsPrefix(calls, RunOrder)
    /\ \A k \in 1..(Len(calls) - 1) : ReturnedCall(calls[k])
    /\ active # NoProbe => active.probe = calls[Len(calls)]

\* The report is generated, and the file written, only after the last probe
\* of the run has returned.
ReportAfterLastProbe ==
    /\ (report # NoReport \/ ReportWritten) =>
           /\ active = NoProbe
           /\ calls = ExpectedCalls(disk_test)
           /\ \A k \in 1..Len(calls) : ReturnedCall(calls[k])
    /\ ReportWritten => reportFile = report /\ report # NoReport

AbortedRun ==
    /\ pc = "raised"
    /\ active = NoProbe
    /\ calls # << >>
    /\ calls[Len(calls)] = exc
    /\ IsPrefix(calls, RunOrder)
    /\ report = NoReport
    /\ reportFile \in {NoFile, OldReport}
    /\ \A i \in 1..Len(console) : console[i][1] \notin {"report", "saved"}
    /\ exc \notin DOMAIN results
    /\ DOMAIN results = {calls[k] : k \in 1..(Len(calls) - 1)} \cap completed
    /\ \A k \in 1..(Len(calls) - 1) : ReturnedCall(calls[k])

\* C3: if a probe raises during run_all_tests the exception propagates out of
\* it: the probe is not retried, no later probe is started, no report is
\* generated or written, the keys of the probes completed before stay in
\* self.results; and nothing more is done by the run after that.
C3_RaiseAbortsRun ==
    /\ [](exc # "none" => AbortedRun)
    /\ [][exc = "none"]_vars

\* The memory probe has raised in a run whose first three probes completed,
\* with an earlier report file on disk left as it was.
C3_Witness ==
    /\ pc = "raised"
    /\ exc = "memory"
    /\ DOMAIN results = {"cpu_fibonacci", "cpu_prime", "cpu_matrix"}
    /\ reportFile = OldReport

\* The script run without the numeric library: the warning has been printed,
\* the matrix probe is replaced, its key is never in self.results and a
\* report, once generated, has no matrix line.
MatrixSkipped ==
    /\ Msg("warning", "numpy") \in Range(console)
    /\ matrix_disabled
    /\ "cpu_matrix" \notin DOMAIN results
    /\ exc # "cpu_matrix"
    /\ report # NoReport => LinesOf(report, "cpu_matrix") = {}

====
